---- MODULE Spec2Model ----
(***************************************************************************)
(* Model of src/memory.py, the memory puzzle game.                         *)
(*                                                                         *)
(* Python lists are sequences (index i of the code is index i+1 here), a   *)
(* box (i, j) is the tuple <<i, j>>, an icon (shape, color) is the tuple   *)
(* <<shape, color>>, None is the empty tuple.  random.shuffle is a choice  *)
(* over every permutation.  Drawing, waiting and the animations change no  *)
(* program state and are left out; the debug log is kept as the variable   *)
(* log.                                                                    *)
(*                                                                         *)
(* The icon catalogue is the first two shapes and the first two colors of  *)
(* the source's catalogue, and the board dimensions are drawn by Init from *)
(* 1..MaxWidth x 1..MaxHeight instead of being 10 x 7, to keep the state   *)
(* space finite and small.                                                 *)
(***************************************************************************)
EXTENDS Integers, Sequences, FiniteSets, TLC

\* ------------------------------------------------------------- bounds
\* Board dimensions Init draws for the game (Spec).
MaxWidth == 2
MaxHeight == 2
\* Board dimensions InitGen draws for board generation alone (SpecGen).
GenMaxWidth == 5
GenMaxHeight == 2
\* The MOUSEBUTTONUP events of one iteration are counted up to this number.
MaxUpsCounted == 2

\* ---------------------------------------------------- program constants
WINDOWWIDTH == 640
WINDOWHEIGHT == 480
BOXSIZE == 40
GAPSIZE == 10

ALLCOLORS == <<"red", "green">>
ALLSHAPES == <<"donut", "square">>

None == <<>>
\* a raised IndexError, in the place of the value of the failed expression (nested
\* so that it differs from every icon, column and board)
IndexError == <<<<<<"IndexError">>>>>>

\* ------------------------------------------------------------- state
VARIABLES
    pc,             \* "load" | "main" | "loop" | "exit" | "AssertionError" | "IndexError"
    BOARDWIDTH,     \* module global
    BOARDHEIGHT,    \* module global
    mainBoard,      \* main's local: list of columns of icons
    revealedBoxes,  \* main's local: list of columns of booleans
    selection,      \* main's local: list of boxes
    mousePos,       \* main's local: (x, y) in pixels
    mouseClicked,   \* main's local
    log,            \* what the last loop iteration wrote to the debug log
    matched,        \* history: the boxes resolved as a Match in this round
    frameInput,     \* history: the pointer events this iteration has consumed
    player          \* the player: free, or following the pair-by-pair strategy

vars == <<pc, BOARDWIDTH, BOARDHEIGHT, mainBoard, revealedBoxes, selection,
          mousePos, mouseClicked, log, matched, frameInput, player>>

\* ------------------------------------------------------ Python helpers
Range(s) == {s[k] : k \in 1..Len(s)}

Min(S) == CHOOSE m \in S : \A n \in S : m <= n

\* int(n / 2): true division, truncated toward zero
IntHalf(n) == IF n >= 0 THEN n \div 2 ELSE -((-n) \div 2)

\* truth value of a tuple or None
PyTruthy(v) == Len(v) > 0

\* list[i], with Python's negative indices
PyIndexOK(list, i) == -Len(list) <= i /\ i < Len(list)
PyGet(list, i) == list[IF i >= 0 THEN i + 1 ELSE Len(list) + i + 1]

\* random.shuffle(s): every permutation of s
Shuffle(s) == {[k \in 1..Len(s) |-> s[p[k]]] : p \in Permutations(1..Len(s))}

\* s[:n]
SliceTo(s, n) == SubSeq(s, 1, IF n < Len(s) THEN n ELSE Len(s))

\* ------------------------------------------------------------- layout
XMARGIN == IntHalf(WINDOWWIDTH - (BOARDWIDTH * (BOXSIZE + GAPSIZE)))
YMARGIN == IntHalf(WINDOWHEIGHT - (BOARDHEIGHT * (BOXSIZE + GAPSIZE)))

\* mutant of AllBoxes: the two dimensions are swapped
AllBoxesTransposed ==
    [k \in 1..(BOARDWIDTH * BOARDHEIGHT) |->
        <<(k - 1) \div BOARDWIDTH, (k - 1) % BOARDWIDTH>>]

\* ((i, j) for i in range(BOARDWIDTH) for j in range(BOARDHEIGHT)), as a list
AllBoxes ==
    [k \in 1..(BOARDWIDTH * BOARDHEIGHT) |->
        <<(k - 1) \div BOARDHEIGHT, (k - 1) % BOARDHEIGHT>>]

getBoxPos(box) ==
    <<box[1] * (BOXSIZE + GAPSIZE) + XMARGIN,
      box[2] * (BOXSIZE + GAPSIZE) + YMARGIN>>

\* mutant of BoxRectCollides: the right and bottom edges are inside the box
BoxRectCollidesInclusive(box, pos) ==
    /\ box[1] * (BOXSIZE + GAPSIZE) + XMARGIN <= pos[1]
    /\ pos[1] <= box[1] * (BOXSIZE + GAPSIZE) + XMARGIN + BOXSIZE
    /\ box[2] * (BOXSIZE + GAPSIZE) + YMARGIN <= pos[2]
    /\ pos[2] <= box[2] * (BOXSIZE + GAPSIZE) + YMARGIN + BOXSIZE

\* getBoxRect(box).collidepoint(pos): left <= x < left + w, top <= y < top + h
BoxRectCollides(box, pos) ==
    LET corner == getBoxPos(box)
    IN  /\ corner[1] <= pos[1] /\ pos[1] < corner[1] + BOXSIZE
        /\ corner[2] <= pos[2] /\ pos[2] < corner[2] + BOXSIZE

getBoxCell(pos) ==
    LET hits == {k \in 1..Len(AllBoxes) : BoxRectCollides(AllBoxes[k], pos)}
    IN  IF hits = {} THEN None ELSE AllBoxes[Min(hits)]

\* -------------------------------------------------- board and reveal-state
getShapeAndColor(board, box) ==
    IF PyIndexOK(board, box[1]) /\ PyIndexOK(PyGet(board, box[1]), box[2])
    THEN PyGet(PyGet(board, box[1]), box[2])
    ELSE IndexError

\* mutant of setIconVisible: the columns are one shared list, so the row of
\* the box is set in every column
setIconVisibleAliased(revealed, box, visible) ==
    [x \in 1..Len(revealed) |-> [revealed[x] EXCEPT ![box[2] + 1] = visible]]

setIconVisible(revealed, box, visible) ==
    [revealed EXCEPT ![box[1] + 1][box[2] + 1] = visible]

iconVisible(revealed, box) == PyGet(PyGet(revealed, box[1]), box[2])

generateRevealedBoxesData(revealed, width, height) ==
    [x \in 1..width |-> [y \in 1..height |-> revealed]]

\* mutant of hasWonFrom: returns True after the first column without a False
hasWonFromFirstColumn(revealed, c) ==
    IF c > Len(revealed) THEN TRUE
    ELSE FALSE \notin Range(revealed[c])

\* for col in revealed: if False in col: return False
RECURSIVE hasWonFrom(_, _)
hasWonFrom(revealed, c) ==
    IF c > Len(revealed) THEN TRUE
    ELSE IF FALSE \in Range(revealed[c]) THEN FALSE
    ELSE hasWonFrom(revealed, c + 1)

hasWon(revealed) == hasWonFrom(revealed, 1)

\* [(shape, color) for shape in ALLSHAPES for color in ALLCOLORS]
AllIcons ==
    [k \in 1..(Len(ALLSHAPES) * Len(ALLCOLORS)) |->
        <<ALLSHAPES[((k - 1) \div Len(ALLCOLORS)) + 1],
          ALLCOLORS[((k - 1) % Len(ALLCOLORS)) + 1]>>]

\* [[icons.pop() for y in range(height)] for x in range(width)]: the n-th pop
\* takes the n-th element from the end, and fails on an empty list
PopInto(icons, width, height) ==
    IF Len(icons) < width * height THEN IndexError
    ELSE [x \in 1..width |->
            [y \in 1..height |-> icons[Len(icons) - ((x - 1) * height + (y - 1))]]]

\* mutant of getRandomizedBoard: icons = allIcons[:numIcons * 2], no icon doubled
getRandomizedBoardNoPairs(width, height) ==
    LET numIcons == IntHalf(width * height)
    IN  UNION {
          {PopInto(icons, width, height) : icons \in Shuffle(SliceTo(allIcons, numIcons * 2))} :
          allIcons \in Shuffle(AllIcons)}

\* every result getRandomizedBoard(width, height) can have: a board, or IndexError
getRandomizedBoard(width, height) ==
    LET numIcons == IntHalf(width * height)
    IN  UNION {
          {PopInto(icons, width, height) :
              icons \in Shuffle(SliceTo(allIcons, numIcons) \o SliceTo(allIcons, numIcons))} :
          allIcons \in Shuffle(AllIcons)}

\* mutant of createBoard: the reveal-state is created all True
createBoardRevealed ==
    {IF board = IndexError THEN IndexError
     ELSE <<board, generateRevealedBoxesData(TRUE, BOARDWIDTH, BOARDHEIGHT)>> :
        board \in getRandomizedBoard(BOARDWIDTH, BOARDHEIGHT)}

\* the results of createBoard() when the first random.shuffle leaves the
\* catalogue in its order: every arrangement of its first icons, doubled
createBoardInOrder ==
    LET numIcons == IntHalf(BOARDWIDTH * BOARDHEIGHT)
    IN  {IF PopInto(icons, BOARDWIDTH, BOARDHEIGHT) = IndexError THEN IndexError
         ELSE <<PopInto(icons, BOARDWIDTH, BOARDHEIGHT),
                generateRevealedBoxesData(FALSE, BOARDWIDTH, BOARDHEIGHT)>> :
            icons \in Shuffle(SliceTo(AllIcons, numIcons) \o SliceTo(AllIcons, numIcons))}

\* every result of createBoard(): (board, revealed), or IndexError
createBoard ==
    {IF board = IndexError THEN IndexError
     ELSE <<board, generateRevealedBoxesData(FALSE, BOARDWIDTH, BOARDHEIGHT)>> :
        board \in getRandomizedBoard(BOARDWIDTH, BOARDHEIGHT)}

\* ------------------------------------------------------------ the pick
NoLog == [selection |-> <<>>, result |-> "", won |-> FALSE]

\* mutant of HideAll: only the first box of the selection is hidden
HideAllFirstOnly(revealed, sel, k) ==
    IF k > Len(sel) THEN revealed
    ELSE setIconVisible(revealed, sel[k], FALSE)

\* for s in selection: setIconVisible(revealed, s, False)
RECURSIVE HideAll(_, _, _)
HideAll(revealed, sel, k) ==
    IF k > Len(sel) THEN revealed
    ELSE HideAll(setIconVisible(revealed, sel[k], FALSE), sel, k + 1)

\* mutant of PickAccepted: a box already in the selection is picked again
PickAcceptedAgain(box, sel) == PyTruthy(box)

\* if box and box not in selection
PickAccepted(box, sel) == PyTruthy(box) /\ box \notin Range(sel)

\* mutant of IconsMatch: the shapes alone are compared
IconsMatchByShape(icon1, icon2) == icon1[1] = icon2[1]

\* if icon1 == icon2
IconsMatch(icon1, icon2) == icon1 = icon2

\* mutant of handleClick: the loop that hides the selection runs after a
\* Match too
handleClickHidesMatch(board, revealed, pos, sel) ==
    LET box == getBoxCell(pos)
    IN  IF PickAccepted(box, sel)
        THEN LET sel1 == Append(sel, box)
                 rev1 == setIconVisible(revealed, box, TRUE)
             IN  IF Len(sel1) > 1
                 THEN [revealed |-> HideAll(rev1, sel1, 1), selection |-> <<>>,
                       log |-> [selection |-> sel1,
                                result |-> IF IconsMatch(getShapeAndColor(board, sel1[1]),
                                                         getShapeAndColor(board, sel1[2]))
                                           THEN "Match" ELSE "Mismatch",
                                won |-> FALSE]]
                 ELSE [revealed |-> rev1, selection |-> sel1,
                       log |-> [selection |-> sel1, result |-> "", won |-> FALSE]]
        ELSE [revealed |-> revealed, selection |-> sel, log |-> NoLog]

\* mutant of handleClick: selection.clear() is in the Mismatch branch only
handleClickKeepsMatch(board, revealed, pos, sel) ==
    LET box == getBoxCell(pos)
    IN  IF PickAccepted(box, sel)
        THEN LET sel1 == Append(sel, box)
                 rev1 == setIconVisible(revealed, box, TRUE)
             IN  IF Len(sel1) > 1
                 THEN IF IconsMatch(getShapeAndColor(board, sel1[1]),
                                    getShapeAndColor(board, sel1[2]))
                      THEN [revealed |-> rev1, selection |-> sel1,
                            log |-> [selection |-> sel1, result |-> "Match", won |-> FALSE]]
                      ELSE [revealed |-> HideAll(rev1, sel1, 1), selection |-> <<>>,
                            log |-> [selection |-> sel1, result |-> "Mismatch", won |-> FALSE]]
                 ELSE [revealed |-> rev1, selection |-> sel1,
                       log |-> [selection |-> sel1, result |-> "", won |-> FALSE]]
        ELSE [revealed |-> revealed, selection |-> sel, log |-> NoLog]

\* handleClick mutates revealed and selection in place: the result is their
\* values on return, with what was logged
handleClick(board, revealed, pos, sel) ==
    LET box == getBoxCell(pos)
    IN  IF PickAccepted(box, sel)
        THEN LET sel1 == Append(sel, box)
                 rev1 == setIconVisible(revealed, box, TRUE)
             IN  IF Len(sel1) > 1
                 THEN LET icon1 == getShapeAndColor(board, sel1[1])
                          icon2 == getShapeAndColor(board, sel1[2])
                      IN  IF IconsMatch(icon1, icon2)
                          THEN [revealed |-> rev1, selection |-> <<>>,
                                log |-> [selection |-> sel1, result |-> "Match", won |-> FALSE]]
                          ELSE [revealed |-> HideAll(rev1, sel1, 1), selection |-> <<>>,
                                log |-> [selection |-> sel1, result |-> "Mismatch", won |-> FALSE]]
                 ELSE [revealed |-> rev1, selection |-> sel1,
                       log |-> [selection |-> sel1, result |-> "", won |-> FALSE]]
        ELSE [revealed |-> revealed, selection |-> sel, log |-> NoLog]

\* ------------------------------------------------------------- actions
\* no pointer event consumed yet in this iteration
NoInput == [ups |-> 0, last |-> None]

CountUp(n) == IF n < MaxUpsCounted THEN n + 1 ELSE n

\* a player who clicks anywhere
FreePlayer == [strategy |-> FALSE, target |-> None]

\* The pointer positions the input source delivers: the top-left pixel of each
\* box, the pixel right of box (0, 0) (a gap or the margin), the window corner.
Positions ==
    {getBoxPos(AllBoxes[k]) : k \in 1..Len(AllBoxes)}
        \cup {<<XMARGIN + BOXSIZE, YMARGIN>>, <<0, 0>>}

\* mutant of ConfigAsserts: the parity assert is missing
ConfigAssertsNoParity ==
    Len(ALLCOLORS) * Len(ALLSHAPES) * 2 >= BOARDWIDTH * BOARDHEIGHT

\* mutant of ConfigAsserts: the parity assert is on the width alone
ConfigAssertsWidthParity ==
    /\ BOARDWIDTH % 2 = 0
    /\ Len(ALLCOLORS) * Len(ALLSHAPES) * 2 >= BOARDWIDTH * BOARDHEIGHT

\* the two module-level asserts
ConfigAsserts ==
    /\ (BOARDWIDTH * BOARDHEIGHT) % 2 = 0
    /\ Len(ALLCOLORS) * Len(ALLSHAPES) * 2 >= BOARDWIDTH * BOARDHEIGHT

\* loading the module: an assert that fails raises AssertionError
ModuleLoad ==
    /\ pc = "load"
    /\ pc' = IF ConfigAsserts THEN "main" ELSE "AssertionError"
    /\ UNCHANGED <<BOARDWIDTH, BOARDHEIGHT, mainBoard, revealedBoxes, selection,
                   mousePos, mouseClicked, log, matched, frameInput, player>>

\* main() up to the first iteration of the loop, createBoard() returning one
\* of results
MainStartOn(results) ==
    /\ pc = "main"
    /\ \E made \in results :
          IF made = IndexError
          THEN /\ pc' = "IndexError"
               /\ UNCHANGED <<mainBoard, revealedBoxes>>
          ELSE /\ pc' = "loop"
               /\ mainBoard' = made[1]
               /\ revealedBoxes' = made[2]
    /\ mousePos' = <<0, 0>>
    /\ selection' = <<>>
    /\ mouseClicked' = FALSE
    /\ frameInput' = NoInput
    /\ UNCHANGED <<BOARDWIDTH, BOARDHEIGHT, log, matched, player>>

MainStart == MainStartOn(createBoard)

\* for event in pygame.event.get(): one MOUSEMOTION event
EventMouseMotion ==
    /\ pc = "loop"
    /\ \E pos \in Positions :
          /\ mousePos' = pos
          /\ frameInput' = [frameInput EXCEPT !.last = pos]
    /\ UNCHANGED <<pc, BOARDWIDTH, BOARDHEIGHT, mainBoard, revealedBoxes, selection,
                   mouseClicked, log, matched, player>>

\* one MOUSEBUTTONUP event
EventMouseButtonUp ==
    /\ pc = "loop"
    /\ \E pos \in Positions :
          /\ mousePos' = pos
          /\ frameInput' = [ups |-> CountUp(frameInput.ups), last |-> pos]
    /\ mouseClicked' = TRUE
    /\ UNCHANGED <<pc, BOARDWIDTH, BOARDHEIGHT, mainBoard, revealedBoxes, selection,
                   log, matched, player>>

\* mutant of EventQuit: the quit is noted and the iteration finishes first
EventQuitAfterFrame ==
    /\ pc = "loop"
    /\ pc' = "exit"
    /\ LET clicked == IF mouseClicked
                      THEN handleClick(mainBoard, revealedBoxes, mousePos, selection)
                      ELSE [revealed |-> revealedBoxes, selection |-> selection]
       IN  /\ revealedBoxes' = clicked.revealed
           /\ selection' = clicked.selection
    /\ UNCHANGED <<BOARDWIDTH, BOARDHEIGHT, mainBoard, mousePos, mouseClicked, log, matched,
                   frameInput, player>>

\* one QUIT event: pygame.quit(); sys.exit()
EventQuit ==
    /\ pc = "loop"
    /\ pc' = "exit"
    /\ UNCHANGED <<BOARDWIDTH, BOARDHEIGHT, mainBoard, revealedBoxes, selection,
                   mousePos, mouseClicked, log, matched, frameInput, player>>

\* mutant of ClickResult: handleClick is called once per MOUSEBUTTONUP event
ClickResultPerEvent ==
    IF mouseClicked
    THEN LET first == handleClick(mainBoard, revealedBoxes, mousePos, selection)
         IN  IF frameInput.ups > 1
             THEN handleClick(mainBoard, first.revealed, mousePos, first.selection)
             ELSE first
    ELSE [revealed |-> revealedBoxes, selection |-> selection, log |-> NoLog]

\* if mouseClicked: handleClick(mainBoard, revealedBoxes, mousePos, selection)
ClickResult ==
    IF mouseClicked
    THEN handleClick(mainBoard, revealedBoxes, mousePos, selection)
    ELSE [revealed |-> revealedBoxes, selection |-> selection, log |-> NoLog]

\* the rest of the iteration once the events are consumed: the pick, the win
\* check and the round reset; then mouseClicked = False of the next iteration
\* createBoard() returns one of results
FrameOn(results) ==
    /\ pc = "loop"
    /\ \E clicked \in {ClickResult} :
       LET nowMatched == IF clicked.log.result = "Match"
                         THEN matched \cup Range(clicked.log.selection)
                         ELSE matched
       IN  /\ selection' = clicked.selection
           /\ IF hasWon(clicked.revealed)
              THEN /\ \E made \in results :
                        IF made = IndexError
                        THEN /\ pc' = "IndexError"
                             /\ mainBoard' = mainBoard
                             /\ revealedBoxes' = clicked.revealed
                        ELSE /\ pc' = "loop"
                             /\ mainBoard' = made[1]
                             /\ revealedBoxes' = made[2]
                   /\ log' = [clicked.log EXCEPT !.won = TRUE]
                   /\ matched' = {}
              ELSE /\ pc' = pc
                   /\ mainBoard' = mainBoard
                   /\ revealedBoxes' = clicked.revealed
                   /\ log' = clicked.log
                   /\ matched' = nowMatched
    /\ mouseClicked' = FALSE
    /\ frameInput' = NoInput
    /\ UNCHANGED <<BOARDWIDTH, BOARDHEIGHT, mousePos, player>>

Frame == FrameOn(createBoard)

\* ---------------------------------------------------------- the player
\* the other box holding the icon of box
Partner(box) ==
    CHOOSE c \in Range(AllBoxes) \ {box} :
        getShapeAndColor(mainBoard, c) = getShapeAndColor(mainBoard, box)

\* between two iterations the player starts to follow the strategy: pick a
\* hidden box, then the other box holding the same icon, and again
PlayerCommit ==
    /\ pc = "loop"
    /\ ~player.strategy
    /\ ~mouseClicked
    /\ ~log.won
    /\ player' = [strategy |-> TRUE, target |-> None]
    /\ UNCHANGED <<pc, BOARDWIDTH, BOARDHEIGHT, mainBoard, revealedBoxes, selection,
                   mousePos, mouseClicked, log, matched, frameInput>>

\* one MOUSEBUTTONUP event of the player who follows the strategy, one per
\* iteration: on a hidden box, or on the partner of the box picked before
PlayerClick ==
    /\ pc = "loop"
    /\ player.strategy
    /\ ~mouseClicked
    /\ \E box \in Range(AllBoxes) :
          /\ IF player.target = None
             THEN /\ ~iconVisible(revealedBoxes, box)
                  /\ player' = [strategy |-> TRUE, target |-> Partner(box)]
             ELSE /\ box = player.target
                  /\ player' = [strategy |-> TRUE, target |-> None]
          /\ mousePos' = getBoxPos(box)
          /\ frameInput' = [ups |-> CountUp(frameInput.ups), last |-> getBoxPos(box)]
    /\ mouseClicked' = TRUE
    /\ UNCHANGED <<pc, BOARDWIDTH, BOARDHEIGHT, mainBoard, revealedBoxes, selection,
                   log, matched>>

\* one MOUSEBUTTONUP event of the free player, one per iteration
FreeClick ==
    /\ ~player.strategy
    /\ ~mouseClicked
    /\ EventMouseButtonUp

\* ------------------------------------------------------- specifications
InitWith(maxWidth, maxHeight) ==
    /\ pc = "load"
    /\ BOARDWIDTH \in 1..maxWidth
    /\ BOARDHEIGHT \in 1..maxHeight
    /\ mainBoard = <<>>
    /\ revealedBoxes = <<>>
    /\ selection = <<>>
    /\ mousePos = <<0, 0>>
    /\ mouseClicked = FALSE
    /\ log = NoLog
    /\ matched = {}
    /\ frameInput = NoInput
    /\ player = FreePlayer

Init == InitWith(MaxWidth, MaxHeight)

Next ==
    \/ ModuleLoad
    \/ MainStart
    \/ EventMouseMotion
    \/ EventMouseButtonUp
    \/ EventQuit
    \/ Frame

Spec == Init /\ [][Next]_vars

\* board generation alone, over more dimensions
InitGen == InitWith(GenMaxWidth, GenMaxHeight)

NextGen ==
    \/ ModuleLoad
    \/ MainStart

SpecGen == InitGen /\ [][NextGen]_vars

\* the game with a player who clicks freely, one click per iteration, and at
\* some iteration boundary starts to follow the strategy for ever; the first
\* shuffle of every round leaves the catalogue in its order; the loop keeps
\* iterating and the player keeps clicking
MainStartInOrder == MainStartOn(createBoardInOrder)

FrameInOrder == FrameOn(createBoardInOrder)

NextPlayer ==
    \/ ModuleLoad
    \/ MainStartInOrder
    \/ FreeClick
    \/ PlayerCommit
    \/ PlayerClick
    \/ FrameInOrder

SpecPlayer ==
    Init /\ [][NextPlayer]_vars /\ WF_vars(PlayerClick) /\ WF_vars(FrameInOrder)

\* ============================================================== claims
Boxes == Range(AllBoxes)

IconAt(box) == mainBoard[box[1] + 1][box[2] + 1]

Visible(revealed, box) == revealed[box[1] + 1][box[2] + 1] = TRUE

\* the board is a BOARDWIDTH x BOARDHEIGHT grid of icons of the catalogue
IsGrid(board) ==
    /\ Len(board) = BOARDWIDTH
    /\ \A x \in 1..BOARDWIDTH :
          /\ Len(board[x]) = BOARDHEIGHT
          /\ \A y \in 1..BOARDHEIGHT : board[x][y] \in Range(AllIcons)

\* every icon value present on the board is in exactly 2 cells
IsPaired(board) ==
    \A b \in Boxes :
        Cardinality({c \in Boxes : board[c[1] + 1][c[2] + 1] = board[b[1] + 1][b[2] + 1]}) = 2

\* ------------------------------------------------------------------ C1
\* C1 (as claimed): in every state of a round, every box that handleClick
\* resolved as part of a Match earlier in that round is visible.
C1_MatchedStayVisible ==
    pc = "loop" => \A b \in matched : Visible(revealedBoxes, b)

\* ------------------------------------------------------------------ C2
\* picking a then b, from an empty selection
PickTwo(a, b) ==
    LET first == handleClick(mainBoard, revealedBoxes, getBoxPos(a), <<>>)
    IN  handleClick(mainBoard, first.revealed, getBoxPos(b), first.selection)

\* C2: from an empty selection, for any two distinct boxes a and b, picking a
\* then b is resolved as a Match, both left visible, exactly when the icons at
\* a and b are equal, and as a Mismatch otherwise; picking b then a is
\* resolved the same way.
C2_MatchIffEqualIcons ==
    (pc = "loop" /\ selection = <<>>) =>
        \A a \in Boxes : \A b \in Boxes \ {a} :
            LET ab == PickTwo(a, b)
                ba == PickTwo(b, a)
            IN  /\ ab.log.selection = <<a, b>>
                /\ ab.log.result = (IF IconAt(a) = IconAt(b) THEN "Match" ELSE "Mismatch")
                /\ ba.log.result = ab.log.result
                /\ ab.log.result = "Match" =>
                      Visible(ab.revealed, a) /\ Visible(ab.revealed, b)

\* a Match of two distinct boxes with equal icons was resolved, both visible
C2_Witness ==
    /\ pc = "loop"
    /\ log.result = "Match"
    /\ ~log.won
    /\ Len(log.selection) = 2
    /\ log.selection[1] # log.selection[2]
    /\ IconAt(log.selection[1]) = IconAt(log.selection[2])
    /\ \A b \in Range(log.selection) : Visible(revealedBoxes, b)

\* ------------------------------------------------------------------ C3
\* C3: when the click handled in an iteration is the second pick of a
\* selection and its icon differs from the first pick's, then after the
\* iteration both picked boxes are not visible and the selection is empty.
C3_MismatchHidesBoth ==
    [][(/\ Frame
        /\ mouseClicked
        /\ Len(selection) = 1
        /\ getBoxCell(mousePos) \in Boxes \ {selection[1]}
        /\ IconAt(getBoxCell(mousePos)) # IconAt(selection[1]))
       => (/\ selection' = <<>>
           /\ ~Visible(revealedBoxes', selection[1])
           /\ ~Visible(revealedBoxes', getBoxCell(mousePos)))]_vars

\* a Mismatch of two boxes with different icons was resolved, both hidden
C3_Witness ==
    /\ pc = "loop"
    /\ log.result = "Mismatch"
    /\ Len(log.selection) = 2
    /\ IconAt(log.selection[1]) # IconAt(log.selection[2])
    /\ selection = <<>>
    /\ \A b \in Range(log.selection) : ~Visible(revealedBoxes, b)

\* ------------------------------------------------------------------ C4
\* C4 (as claimed): in the first state of the round that follows a win, the
\* selection is empty.
C4_ResetClearsSelection ==
    (pc = "loop" /\ log.won) => selection = <<>>

\* ------------------------------------------------------------------ C5
\* C5: an iteration whose click is on a box that is already in the selection
\* changes neither the selection nor the visibility of any cell.
C5_RepickIsNoOp ==
    [][(/\ Frame
        /\ mouseClicked
        /\ getBoxCell(mousePos) \in Range(selection))
       => (selection' = selection /\ revealedBoxes' = revealedBoxes)]_vars

\* a click on the box of the selection is about to be handled
C5_Witness ==
    /\ pc = "loop"
    /\ mouseClicked
    /\ Len(selection) = 1
    /\ getBoxCell(mousePos) = selection[1]
    /\ Visible(revealedBoxes, selection[1])

\* ------------------------------------------------------------------ C6
\* C6: the board getRandomizedBoard made is a BOARDWIDTH x BOARDHEIGHT grid,
\* every cell holds an icon, and every icon present is in exactly 2 cells.
C6_BoardIsPaired ==
    pc = "loop" => (IsGrid(mainBoard) /\ IsPaired(mainBoard))

\* a 4 x 2 board was generated, with 4 distinct icons
C6_Witness ==
    /\ pc = "loop"
    /\ BOARDWIDTH = 4
    /\ BOARDHEIGHT = 2
    /\ Cardinality({IconAt(b) : b \in Boxes}) = 4

\* ------------------------------------------------------------------ C7
\* C7: in the state that follows a round reset, every cell of the
\* reveal-state is False and the new board is a grid of pairs.
C7_ResetHidesAll ==
    (pc = "loop" /\ log.won) =>
        /\ \A b \in Boxes : ~Visible(revealedBoxes, b)
        /\ IsGrid(mainBoard)
        /\ IsPaired(mainBoard)

\* a round of a 2 x 2 board was won and reset
C7_Witness ==
    /\ pc = "loop"
    /\ log.won
    /\ BOARDWIDTH = 2
    /\ BOARDHEIGHT = 2

\* ------------------------------------------------------------------ C8
\* C8: for every grid of booleans of the board's dimensions, hasWon is true
\* exactly when every cell is True.
C8_HasWonIffAllVisible ==
    pc = "loop" =>
        \A grid \in [1..BOARDWIDTH -> [1..BOARDHEIGHT -> BOOLEAN]] :
            hasWon(grid) <=> (\A b \in Boxes : Visible(grid, b))

\* hasWon returned True in the loop for a 2 x 2 board whose last hidden box
\* the click revealed
C8_Witness ==
    /\ pc = "loop"
    /\ log.won
    /\ log.result = "Match"
    /\ BOARDWIDTH = 2
    /\ BOARDHEIGHT = 2

\* ------------------------------------------------------------------ C9
ValidConfig ==
    /\ (BOARDWIDTH * BOARDHEIGHT) % 2 = 0
    /\ Cardinality(Range(AllIcons)) * 2 >= BOARDWIDTH * BOARDHEIGHT

\* C9: once the module is loaded, the program has failed with the
\* configuration error, no board made, exactly when the product of the
\* dimensions is odd or exceeds twice the number of icons; otherwise board
\* generation does not fail.
C9_ConfigError ==
    /\ pc # "IndexError"
    /\ pc = "AssertionError" => (~ValidConfig /\ mainBoard = <<>>)
    /\ pc \in {"main", "loop"} => ValidConfig
    /\ pc = "loop" => IsGrid(mainBoard)

\* the configuration error for an even product that the catalogue cannot cover
C9_Witness ==
    /\ pc = "AssertionError"
    /\ (BOARDWIDTH * BOARDHEIGHT) % 2 = 0
    /\ mainBoard = <<>>

\* ----------------------------------------------------------------- C10
\* C10 (as claimed): with width 3 and height 2 the program fails with the
\* configuration error.
C10_ThreeByTwoRaises ==
    (BOARDWIDTH = 3 /\ BOARDHEIGHT = 2 /\ pc # "load") => pc = "AssertionError"

\* C10 (amended): with width 3 and height 2 no configuration error is raised
\* and a 3 x 2 board is generated.
C10_ThreeByTwoSucceeds ==
    (BOARDWIDTH = 3 /\ BOARDHEIGHT = 2 /\ pc # "load") =>
        /\ pc \in {"main", "loop"}
        /\ pc = "loop" => (Len(mainBoard) = 3 /\ \A x \in 1..3 : Len(mainBoard[x]) = 2)

\* a 3 x 2 board was generated
C10_Witness ==
    /\ pc = "loop"
    /\ BOARDWIDTH = 3
    /\ BOARDHEIGHT = 2
    /\ IsGrid(mainBoard)

\* ----------------------------------------------------------------- C11
Distinct(sel) == \A k \in 1..Len(sel) : \A l \in 1..Len(sel) : sel[k] = sel[l] => k = l

\* C11: the selection handleClick logged after its append holds at most 2
\* boxes, all distinct; a selection that reached 2 boxes was cleared in the
\* same call, on Match as on Mismatch; so between loop iterations the
\* selection holds at most 1 box.
C11_SelectionAtMostOne ==
    /\ Len(selection) <= 1
    /\ Len(log.selection) <= 2
    /\ Distinct(log.selection)
    /\ Len(log.selection) = 2 => (log.result \in {"Match", "Mismatch"} /\ selection = <<>>)
    /\ log.result \in {"Match", "Mismatch"} => Len(log.selection) = 2

\* a selection of 2 boxes was resolved as a Match and cleared, the round not won
C11_Witness ==
    /\ pc = "loop"
    /\ Len(log.selection) = 2
    /\ log.result = "Match"
    /\ selection = <<>>
    /\ ~hasWon(revealedBoxes)
    /\ \E b \in Boxes : ~Visible(revealedBoxes, b)

\* ----------------------------------------------------------------- C12
\* the boxes around the grid, one cell beyond it on every side
BoxesAround ==
    {<<i, j>> : i \in (-(BOARDWIDTH + 1))..BOARDWIDTH, j \in (-(BOARDHEIGHT + 1))..BOARDHEIGHT}

InGrid(box) ==
    /\ 0 <= box[1] /\ box[1] < BOARDWIDTH
    /\ 0 <= box[2] /\ box[2] < BOARDHEIGHT

\* C12 (as claimed): getShapeAndColor fails for every box whose column or row
\* is outside the grid, negative coordinates included.
C12_OutOfBoundsFails ==
    pc = "loop" =>
        \A box \in BoxesAround :
            ~InGrid(box) => getShapeAndColor(mainBoard, box) = IndexError

\* ----------------------------------------------------------------- C13
\* the pixels of the board with one pixel of margin on every side, and the
\* corners of the window
ProbePositions ==
    LET xs == {0, WINDOWWIDTH - 1}
                \cup ((XMARGIN - 1)..(XMARGIN + BOARDWIDTH * (BOXSIZE + GAPSIZE)))
        ys == {0, WINDOWHEIGHT - 1}
                \cup ((YMARGIN - 1)..(YMARGIN + BOARDHEIGHT * (BOXSIZE + GAPSIZE)))
    IN  xs \X ys

InBox(box, pos) ==
    /\ XMARGIN + box[1] * (BOXSIZE + GAPSIZE) <= pos[1]
    /\ pos[1] < XMARGIN + box[1] * (BOXSIZE + GAPSIZE) + BOXSIZE
    /\ YMARGIN + box[2] * (BOXSIZE + GAPSIZE) <= pos[2]
    /\ pos[2] < YMARGIN + box[2] * (BOXSIZE + GAPSIZE) + BOXSIZE

\* C13: for every position at most one box of the grid encloses it;
\* getBoxCell returns that box, and None when there is none (margin or gap);
\* and a click on box (0, 0) with an empty selection is accepted as a pick.
C13_HitTest ==
    /\ pc = "main" =>
          \A pos \in ProbePositions :
              LET enclosing == {b \in {<<i, j>> : i \in 0..(BOARDWIDTH - 1),
                                                  j \in 0..(BOARDHEIGHT - 1)} : InBox(b, pos)}
              IN  /\ Cardinality(enclosing) <= 1
                  /\ enclosing = {} => getBoxCell(pos) = None
                  /\ \A b \in enclosing : getBoxCell(pos) = b
    /\ pc = "loop" =>
          LET r == handleClick(mainBoard, revealedBoxes, getBoxPos(<<0, 0>>), <<>>)
          IN  r.selection = <<<<0, 0>>>> /\ Visible(r.revealed, <<0, 0>>)

\* box (0, 0) was picked by a click on its top-left pixel
C13_Witness ==
    /\ pc = "loop"
    /\ mousePos = <<XMARGIN, YMARGIN>>
    /\ selection = <<<<0, 0>>>>
    /\ log.selection = <<<<0, 0>>>>
    /\ Visible(revealedBoxes, <<0, 0>>)

\* ----------------------------------------------------------------- C14
\* C14: the program never stops on an IndexError; the grids keep the board's
\* dimensions; every box the hit test returns, every box of the selection
\* and every box a click would make handleClick look up is inside the grid,
\* and its icon lookup does not fail.
C14_NeverFails ==
    /\ pc # "IndexError"
    /\ pc = "main" =>
          \A pos \in ProbePositions :
              getBoxCell(pos) = None \/ InGrid(getBoxCell(pos))
    /\ pc = "loop" =>
          /\ IsGrid(mainBoard)
          /\ Len(revealedBoxes) = BOARDWIDTH
          /\ \A x \in 1..BOARDWIDTH : Len(revealedBoxes[x]) = BOARDHEIGHT
          /\ \A b \in Range(selection) : InGrid(b)
          /\ \A pos \in Positions :
                /\ getBoxCell(pos) = None \/ InGrid(getBoxCell(pos))
                /\ \A b \in Range(handleClick(mainBoard, revealedBoxes, pos, selection).log.selection) :
                      InGrid(b) /\ getShapeAndColor(mainBoard, b) # IndexError

\* a round was won and reset while a box of the old round is selected
C14_Witness ==
    /\ pc = "loop"
    /\ log.won
    /\ Len(selection) = 1
    /\ InGrid(selection[1])

\* ----------------------------------------------------------------- C15
\* C15: the step that processes a quit ends the loop and changes neither
\* board, reveal-state nor selection, and nothing changes afterwards.
C15_QuitAtOnce ==
    [][(pc = "exit" \/ pc' = "exit")
       => (/\ pc' = "exit"
           /\ mainBoard' = mainBoard
           /\ revealedBoxes' = revealedBoxes
           /\ selection' = selection)]_vars

\* the program quit in a frame whose click on a hidden box was not applied
C15_Witness ==
    /\ pc = "exit"
    /\ mouseClicked
    /\ getBoxCell(mousePos) \in Boxes
    /\ ~Visible(revealedBoxes, getBoxCell(mousePos))
    /\ getBoxCell(mousePos) \notin Range(selection)

\* ----------------------------------------------------------------- C16
\* C16 (as claimed): between loop iterations every box of the selection is
\* visible.
C16_SelectionVisible ==
    pc = "loop" => \A b \in Range(selection) : Visible(revealedBoxes, b)

\* ----------------------------------------------------------------- C17
\* C17 (as claimed): whenever the selection is empty, a cell is visible
\* exactly when the other cell with the same icon is.
C17_VisibleInPairs ==
    (pc = "loop" /\ selection = <<>>) =>
        \A b \in Boxes : \A c \in Boxes :
            IconAt(b) = IconAt(c) => (Visible(revealedBoxes, b) <=> Visible(revealedBoxes, c))

\* ----------------------------------------------------------------- C18
\* C18: an iteration that does not end the round leaves the board as it
\* was and changes the visibility of no cell outside the selection and the
\* clicked box; when the click is in a margin or a gap, reveal-state and
\* selection are unchanged too.
C18_ClickFrame ==
    [][(Frame /\ ~hasWon(ClickResult.revealed))
       => (/\ mainBoard' = mainBoard
           /\ \A b \in Boxes \ (Range(selection) \cup {getBoxCell(mousePos)}) :
                 Visible(revealedBoxes', b) <=> Visible(revealedBoxes, b)
           /\ getBoxCell(mousePos) = None =>
                 (selection' = selection /\ revealedBoxes' = revealedBoxes))]_vars

\* a Mismatch was resolved and hidden while a box outside it stays visible
C18_Witness ==
    /\ pc = "loop"
    /\ log.result = "Mismatch"
    /\ \A b \in Range(log.selection) : ~Visible(revealedBoxes, b)
    /\ \E b \in Boxes \ Range(log.selection) : Visible(revealedBoxes, b)

\* ----------------------------------------------------------------- C19
\* C19: an iteration that consumed no MOUSEBUTTONUP event applies no pick;
\* one that consumed one or several applies exactly one handleClick, at the
\* position of the last pointer event (motion or button-up) it consumed.
C19_OnePickPerFrame ==
    [][Frame =>
        IF frameInput.ups = 0
        THEN /\ selection' = selection
             /\ revealedBoxes' = revealedBoxes
             /\ log' = NoLog
        ELSE LET once == handleClick(mainBoard, revealedBoxes, frameInput.last, selection)
             IN  /\ selection' = once.selection
                 /\ log'.selection = once.log.selection
                 /\ log'.result = once.log.result
                 /\ ~log'.won => revealedBoxes' = once.revealed]_vars

\* several MOUSEBUTTONUP events were consumed in this iteration, the last
\* pointer event on a hidden box that is not in the selection
C19_Witness ==
    /\ pc = "loop"
    /\ mouseClicked
    /\ frameInput.ups >= 2
    /\ frameInput.last = mousePos
    /\ getBoxCell(mousePos) \in Boxes \ Range(selection)
    /\ ~Visible(revealedBoxes, getBoxCell(mousePos))

\* ----------------------------------------------------------------- C20
\* C20 (as claimed): from every state between two iterations, whatever the
\* selection holds, the player who follows the strategy eventually wins.
C20_StrategyWins ==
    [](player.strategy => <>(log.won))

\* C20 (amended): from every state between two iterations whose selection
\* is empty, the player who follows the strategy eventually wins.
C20_StrategyWinsFromEmpty ==
    [](( /\ player.strategy
         /\ player.target = None
         /\ ~mouseClicked
         /\ selection = <<>> ) => <>(log.won))

\* the player who follows the strategy completed a pair and won a 2 x 2 round
C20_Witness ==
    /\ pc = "loop"
    /\ player.strategy
    /\ player.target = None
    /\ log.won
    /\ log.result = "Match"
    /\ BOARDWIDTH = 2
    /\ BOARDHEIGHT = 2
    /\ selection = <<>>

====
